---- MODULE Spec2Model ----
(***************************************************************************)
(* Model of the Jerry voice assistant's command dispatcher                *)
(* (src/Jerry/main.py, VirtualAssistant.process_command) together with    *)
(* the collaborators it calls: SystemManager, PlatformUtils, the feature  *)
(* managers and the bounded conversation history.                         *)
(*                                                                         *)
(* Command texts are TLA+ strings handled character by character; the     *)
(* Python string methods lower(), strip(), replace() and the substring   *)
(* test (in) are operators that compute what the methods compute.        *)
(*                                                                         *)
(* A call of process_command is one action.  What the call did is kept in *)
(* the observation variables command, result, calls and fired.            *)
(*                                                                         *)
(* Specifications:                                                         *)
(*   Spec      process_command called directly on a constructed assistant  *)
(*   SpecRun   VirtualAssistant.run: the start-up gate and the listen and  *)
(*             dispatch loop                                               *)
(*   SpecHistory  update_conversation_history called any number of times   *)
(*   SpecScan     the PlatformUtils calls scan_for_applications,            *)
(*                find_application and get_installed_apps over a fixed      *)
(*                filesystem, the scan taken one directory visit at a time  *)
(*   SpecVoices   the PlatformUtils voice enumeration methods and          *)
(*                get_default_voice against what the registry or the       *)
(*                voice-listing command gives back                         *)
(***************************************************************************)
EXTENDS Integers, Sequences, FiniteSets, TLC

VARIABLES
    missing_deps,          \* self.missing_deps, as a set of package names
    platform_system,       \* platform.system()
    app_cache,             \* PlatformUtils.app_cache: lower-cased name -> path
    conversation_history,  \* self.conversation_history
    command,               \* argument of the last process_command call
    result,                \* how that call ended: "True", "False" or the exception
    calls,                 \* collaborator calls made during that call, in order
    fired,                 \* branches of the rule chains entered during that call
    ncalls,                \* number of process_command calls made so far
    attached               \* names of the attributes set on the assistant

\* VirtualAssistant.run
VARIABLES
    run_pc,                \* "off", "start", "loop", "returned" or "raised"
    run_error,             \* the exception that left run(), "" for none
    mic,                   \* verify_microphone: "unchecked", "ok" or "failed"
    greeted,               \* wish_user has been called
    listens                \* number of listen() calls made so far

\* update_conversation_history called on its own (SpecHistory)
VARIABLES
    appended               \* every turn handed to it so far, in order

\* PlatformUtils.scan_for_applications, find_application, get_installed_apps
VARIABLES
    time_bound,            \* the name time resolves inside platform_utils
    now,                   \* time.time()
    ticks,                 \* number of times the clock has advanced
    nops,                  \* number of PlatformUtils calls made so far
    scan_pc,               \* "idle", "locations" (loop head) or "walk"
    caller,                \* the call that runs the scan: [op, arg, built]
    scan_max_depth,        \* max_depth and timeout of the running scan
    scan_timeout,
    start_time,            \* local of scan_for_applications
    locations_left,        \* search_locations not yet reached by the loop
    pending,               \* _scan_directory calls still to be made, next first
    scan_paths,            \* paths: the index being built
    cut,                   \* the loop was left by its break
    visit,                 \* the directory visit begun last: [directory, depth, elapsed]
    candidates,            \* candidates met by this scan, in order
    roots_visited,         \* root locations this scan has called _scan_directory on
    errors,                \* listings that raised during this scan: [directory, raised]
    scan_count,            \* number of scan_for_applications invocations
    prev,                  \* the completed call before the last one
    last,                  \* the last completed call
    first_build            \* the index as the first complete scan left it

\* voice discovery (specification SpecVoices)
VARIABLES
    voice_calls            \* the completed voice-discovery calls, oldest first

assistantVars == <<missing_deps, platform_system, app_cache>>

dispatchVars == <<conversation_history, command, result, calls, fired, ncalls,
                  attached>>

runVars == <<run_pc, run_error, mic, greeted, listens>>

historyVars == <<appended>>

voiceVars == <<voice_calls>>

scanVars == <<time_bound, now, ticks, nops, scan_pc, caller, scan_max_depth,
              scan_timeout, start_time, locations_left, pending, scan_paths, cut, visit,
              candidates, roots_visited, errors, scan_count, prev, last,
              first_build>>

vars == <<missing_deps, platform_system, app_cache, conversation_history,
          command, result, calls, fired, ncalls, attached,
          run_pc, run_error, mic, greeted, listens, appended,
          time_bound, now, ticks, nops, scan_pc, caller, scan_max_depth,
          scan_timeout, start_time, locations_left, pending, scan_paths, cut, visit,
          candidates, roots_visited, errors, scan_count, prev, last,
          first_build, voice_calls>>

\* ------------------------------------------------------------------ bounds
MaxCalls == 2
MaxHeadlines == 1

\* ------------------------------------------------------- program constants
max_history_length == 10

\* the one-character string holding a backquote (a lone backquote cannot be
\* written as a string literal)
Backquote == SubSeq("`'", 1, 1)

\* dangerous_chars with the semicolon left out of the literal
dangerous_chars_without_semicolon ==
    {Backquote, "$", "(", ")", "{", "}", "[", "]", "&", "|", "\\"}

dangerous_chars ==
    {Backquote, "$", "(", ")", "{", "}", "[", "]", "&", "|", ";", "\\"}

RequiredDeps ==
    {"pyttsx3", "speech_recognition", "pywhatkit", "pyautogui",
     "instaloader", "wikipedia"}

Platforms == {"Windows", "Darwin", "Linux"}

\* ------------------------------------------------------------ str methods
Whitespace == {" ", "\t", "\n", "\r", "\f"}

UpperToLower ==
    "A" :> "a" @@ "B" :> "b" @@ "C" :> "c" @@ "D" :> "d" @@ "E" :> "e" @@
    "F" :> "f" @@ "G" :> "g" @@ "H" :> "h" @@ "I" :> "i" @@ "J" :> "j" @@
    "K" :> "k" @@ "L" :> "l" @@ "M" :> "m" @@ "N" :> "n" @@ "O" :> "o" @@
    "P" :> "p" @@ "Q" :> "q" @@ "R" :> "r" @@ "S" :> "s" @@ "T" :> "t" @@
    "U" :> "u" @@ "V" :> "v" @@ "W" :> "w" @@ "X" :> "x" @@ "Y" :> "y" @@
    "Z" :> "z"

CharAt(s, i) == SubSeq(s, i, i)

\* str.lower(): a text without an upper-case letter is returned as it is
RECURSIVE Lower(_)
Lower(s) ==
    IF \A i \in 1..Len(s) : CharAt(s, i) \notin DOMAIN UpperToLower THEN s
    ELSE LET c == CharAt(s, 1)
         IN (IF c \in DOMAIN UpperToLower THEN UpperToLower[c] ELSE c)
            \o Lower(SubSeq(s, 2, Len(s)))

\* str.strip()
RECURSIVE LStrip(_)
LStrip(s) ==
    IF Len(s) > 0 /\ CharAt(s, 1) \in Whitespace
    THEN LStrip(SubSeq(s, 2, Len(s)))
    ELSE s

RECURSIVE RStrip(_)
RStrip(s) ==
    IF Len(s) > 0 /\ CharAt(s, Len(s)) \in Whitespace
    THEN RStrip(SubSeq(s, 1, Len(s) - 1))
    ELSE s

Strip(s) == RStrip(LStrip(s))

\* sub in s
Contains(s, sub) ==
    \E i \in 1..(Len(s) - Len(sub) + 1) : SubSeq(s, i, i + Len(sub) - 1) = sub

\* s.replace(old, new), old non-empty: leftmost, non-overlapping occurrences
RECURSIVE Replace(_, _, _)
Replace(s, old, new) ==
    IF Len(s) < Len(old) THEN s
    ELSE IF SubSeq(s, 1, Len(old)) = old
         THEN new \o Replace(SubSeq(s, Len(old) + 1, Len(s)), old, new)
         ELSE CharAt(s, 1) \o Replace(SubSeq(s, 2, Len(s)), old, new)

\* any(c in dangerous_chars for c in command)
HasDangerousChar(s) == \E i \in 1..Len(s) : CharAt(s, i) \in dangerous_chars

\* the command lower-cased and not trimmed
Normalize_without_strip(s) == Lower(s)

\* command.lower().strip()
Normalize(s) == Strip(Lower(s))

\* --------------------------------------------------------------- the log
Call(op, arg) == [op |-> op, arg |-> arg]
Speak(text) == Call("speech.speak", text)

\* outcome of a callee: the exception it raised ("" for none), the value it
\* returned and the collaborator calls it made
Returned(value, cs) == [raised |-> "", value |-> value, calls |-> cs]
Raised(exc, cs) == [raised |-> exc, value |-> "", calls |-> cs]

\* ------------------------------------------------- features/system_manager
\* SystemManager.shutdown is declared a static method with the parameters
\* (self, confirm=False, require_phrase=True): nothing is bound to self
\* unless the caller passes it.  args is the record of the arguments of the
\* call; a call that leaves self unbound raises TypeError before the body.
\* shutdown as a static method without the self parameter and without the
\* confirmation guard
shutdown_without_guard(args, sys) ==
    IF sys = "Windows"
    THEN Returned("Shutting down in 60 seconds. To cancel, say 'cancel shutdown'",
                  <<Call("os.system", "shutdown /s /t 60")>>)
    ELSE Returned("Shutting down in 60 seconds. To cancel, use 'sudo shutdown -c'",
                  <<Call("os.system", "sudo shutdown -h +1")>>)

shutdown(args, sys) ==
    IF "self" \notin DOMAIN args THEN Raised("TypeError", <<>>)
    ELSE LET confirm == IF "confirm" \in DOMAIN args THEN args.confirm ELSE FALSE
             require_phrase == IF "require_phrase" \in DOMAIN args
                               THEN args.require_phrase ELSE TRUE
         IN IF require_phrase /\ ~confirm
            THEN Returned("Please confirm by saying 'confirm shutdown'", <<>>)
            ELSE IF sys = "Windows"
                 THEN Returned("Shutting down in 60 seconds. To cancel, say 'cancel shutdown'",
                               <<Call("os.system", "shutdown /s /t 60")>>)
                 ELSE Returned("Shutting down in 60 seconds. To cancel, use 'sudo shutdown -c'",
                               <<Call("os.system", "sudo shutdown -h +1")>>)

cancel_shutdown(sys) ==
    Returned("Shutdown canceled",
             <<Call("os.system",
                    IF sys = "Windows" THEN "shutdown /a" ELSE "sudo shutdown -c")>>)

\* restart with the Windows command line on every platform
restart_windows_only(sys) ==
    Returned("", <<Call("os.system", "shutdown /r /t 5")>>)

restart(sys) ==
    Returned("",
             <<Call("os.system",
                    IF sys = "Windows" THEN "shutdown /r /t 5"
                    ELSE "sudo shutdown -r now")>>)

sleep(sys) ==
    Returned("",
             <<Call("os.system",
                    IF sys = "Windows"
                    THEN "rundll32.exe powrprof.dll,SetSuspendState 0,1,0"
                    ELSE "pmset sleepnow")>>)

\* every exception of the launcher is caught and printed
open_app(app_path, sys) ==
    Returned("",
             IF sys = "Windows" THEN <<Call("os.startfile", app_path)>>
             ELSE IF sys = "Darwin" THEN <<Call("subprocess.call", "open " \o app_path)>>
             ELSE IF sys = "Linux" THEN <<Call("subprocess.call", "xdg-open " \o app_path)>>
             ELSE <<>>)

\* --------------------------------------------------------- platform_utils
\* scan_for_applications reads time.time() on its third statement, and the
\* module never imports time: the call raises NameError before any
\* directory is visited and before app_cache is assigned.  This is the call
\* as the assistant makes it; SpecScan also follows the scan where the name
\* resolves (time_bound).
scan_for_applications(cache) ==
    [raised |-> "NameError", value |-> "", calls |-> <<>>, cache |-> cache]

\* the cache test with the cache never consulted
in_cache_never(cache, name) == FALSE

\* app_name in self.app_cache
in_cache(cache, name) == name \in DOMAIN cache

\* the name looked up as the caller wrote it
lookup_key_as_given(app_name) == app_name

\* app_name = app_name.lower()
lookup_key(app_name) == Lower(app_name)

find_application(cache, app_name) ==
    LET name == lookup_key(app_name)
    IN IF in_cache(cache, name)
       THEN [raised |-> "", value |-> cache[name], calls |-> <<>>, cache |-> cache]
       ELSE LET sc == scan_for_applications(cache)
            IN IF sc.raised # "" THEN sc
               ELSE [raised |-> "",
                     value |-> IF name \in DOMAIN sc.cache THEN sc.cache[name] ELSE "",
                     calls |-> <<>>, cache |-> sc.cache]

\* the emptiness test answering that the cache is empty whatever it holds
cache_empty_always(cache) == TRUE

\* not self.app_cache
cache_empty(cache) == DOMAIN cache = {}

is_windows(sys) == sys = "Windows"

\* ------------------------------------------------------ feature providers
\* The providers are external services: each operator gives the set of the
\* outcomes a call may have.
WeatherReplies ==
    {"Weather functionality is not available (missing API key)",
     "The temperature in London is <temp> C with <desc>"}

SentimentLabels == {"POSITIVE", "NEGATIVE", "NEUTRAL"}

get_weather(city) ==
    {Returned(w, <<Call("weather.get_weather", city)>>) : w \in WeatherReplies}

\* a list of titles; every failure is turned into a one-element list
get_news ==
    {[raised |-> "", value |-> [i \in 1..n |-> "<title>"],
      calls |-> <<Call("news.get_news", "")>>] : n \in 0..MaxHeadlines}

\* the three fields, or the error marker when anything failed
get_location ==
    {[raised |-> "", value |-> v, calls |-> <<Call("location.get_location", "")>>] :
        v \in {[city |-> "<city>", country |-> "<country>", region |-> "<region>"],
               [error |-> "<error>"]}}

search(query) ==
    Returned("<summary>", <<Call("wiki.search", query)>>)

take_screenshot ==
    Returned("<path>", <<Call("screenshot.take_screenshot", "")>>)

PositiveResponses ==
    <<"That sounds great!", "I'm glad to hear that.", "Wonderful!">>

NegativeResponses ==
    <<"I'm sorry you're feeling that way.", "That sounds challenging.",
      "I hope things get better.">>

\* the label of the sentiment analysis and the pick of random.choice
generate_response(text) ==
    {Returned(response, <<Call("generate_response", text)>>) :
        response \in UNION {
            IF label = "POSITIVE" THEN {PositiveResponses[k] : k \in 1..3}
            ELSE IF label = "NEGATIVE" THEN {NegativeResponses[k] : k \in 1..3}
            ELSE {"I'm not sure how to respond to that, but I'm here to help!"} :
            label \in SentimentLabels}}

Digits == <<"1", "2", "3", "4", "5", "6">>

\* the speak calls of the loop over enumerate(headlines, 1)
HeadlineSpeech(titles) ==
    [i \in 1..Len(titles) |-> Speak("Headline " \o Digits[i] \o ": " \o titles[i])]

\* ------------------------------------------------------ VirtualAssistant
\* the attributes of the assistant had __init__ not declared the two NLP
\* slots
Attached_without_nlp_slots(md) ==
    {"config", "platform_utils", "speech", "browser", "system", "location"}
    \cup (IF "pywhatkit" \notin md THEN {"weather", "news"} ELSE {})
    \cup (IF "pyautogui" \notin md THEN {"screenshot"} ELSE {})
    \cup (IF "instaloader" \notin md THEN {"social"} ELSE {})
    \cup (IF "wikipedia" \notin md THEN {"wiki"} ELSE {})

\* the collaborators __init__ sets on the assistant: config, platform_utils,
\* speech, browser, system and location always, the feature managers only
\* when their package is present, and the two NLP slots, set to None
Attached(md) ==
    {"config", "platform_utils", "speech", "browser", "system", "location",
     "sentiment_analyzer", "intent_classifier"}
    \cup (IF "pywhatkit" \notin md THEN {"weather", "news"} ELSE {})
    \cup (IF "pyautogui" \notin md THEN {"screenshot"} ELSE {})
    \cup (IF "instaloader" \notin md THEN {"social"} ELSE {})
    \cup (IF "wikipedia" \notin md THEN {"wiki"} ELSE {})

\* hasattr(self, attr) after __init__
HasAttr(md, attr) == attr \in Attached(md)

\* _ensure_nlp_loaded assigns self.sentiment_analyzer and
\* self.intent_classifier, the models or their stand-ins
_ensure_nlp_loaded(att) == att \cup {"sentiment_analyzer", "intent_classifier"}

\* the attributes after a process_command call that made the calls of log:
\* the only assignments to self on its paths are those of
\* _ensure_nlp_loaded, reached through generate_response
attached_after(att, log) ==
    IF \E i \in 1..Len(log) : log[i].op = "generate_response"
    THEN _ensure_nlp_loaded(att)
    ELSE att

\* the history with the eviction of the oldest turn left out
update_conversation_history_without_eviction(hist, text, speaker) ==
    Append(hist, [text |-> text, speaker |-> speaker])

\* the timestamp of a turn is the wall clock and is left out
update_conversation_history(hist, text, speaker) ==
    LET h == Append(hist, [text |-> text, speaker |-> speaker])
    IN IF Len(h) > max_history_length THEN Tail(h) ELSE h

\* the farewell test with its second disjunct left out
IsFarewell_goodbye_only(c) == Contains(c, "goodbye")

\* "goodbye" in command or "bye" in command
IsFarewell(c) == Contains(c, "goodbye") \/ Contains(c, "bye")

Unavailable(feature) ==
    Speak("I'm sorry, " \o feature \o " are unavailable due to missing dependencies.")

Unavailable2(feature) ==
    Speak(feature \o " are unavailable due to missing dependencies.")

Outcome(res, cs, rule) == [result |-> res, calls |-> cs, fired |-> rule]

\* the outcome of a branch that ends with the call r followed by the speak
\* calls after: an exception of r ends process_command
After(r, before, after, rule) ==
    IF r.raised # ""
    THEN Outcome(r.raised, before \o r.calls, <<rule>>)
    ELSE Outcome("True", before \o r.calls \o after, <<rule>>)

\* first chain of process_command: farewell and the browser commands
\* the query with the whitespace around it left in place
play_query_untrimmed(c) == Replace(c, "play", "")

\* query = command.replace("play", "").strip()
play_query(c) == Strip(Replace(c, "play", ""))

\* query = command.replace("search", "").replace("google", "").strip()
search_query(c) == Strip(Replace(Replace(c, "search", ""), "google", ""))

BrowserChain(c, md) ==
    IF IsFarewell(c)
    THEN Outcome("False", <<Speak("Goodbye! Have a great day!")>>, <<"farewell">>)
    ELSE IF Contains(c, "open youtube")
    THEN IF HasAttr(md, "browser")
         THEN Outcome("True", <<Call("browser.open_url", "youtube.com")>>, <<"open youtube">>)
         ELSE Outcome("True", <<Unavailable("browser features")>>, <<"open youtube">>)
    ELSE IF Contains(c, "play")
    THEN IF "pywhatkit" \notin md
         THEN Outcome("True",
                      <<Call("browser.search_youtube", play_query(c))>>,
                      <<"play">>)
         ELSE Outcome("True", <<Unavailable("YouTube features")>>, <<"play">>)
    ELSE IF Contains(c, "search") /\ Contains(c, "google")
    THEN IF HasAttr(md, "browser")
         THEN Outcome("True",
                      <<Call("browser.search_google", search_query(c))>>,
                      <<"search google">>)
         ELSE Outcome("True", <<Unavailable("browser features")>>, <<"search google">>)
    ELSE Outcome("True", <<>>, <<>>)

\* second chain of process_command, which starts with a new if: system,
\* application and information commands, and the default responder
SystemChain(c, md, sys, cache) ==
    IF Contains(c, "shutdown")
    THEN IF HasAttr(md, "system")
         THEN IF Contains(c, "confirm shutdown")
              THEN {After(shutdown([confirm |-> TRUE], sys), <<>>, <<>>, "shutdown")}
              ELSE LET r == shutdown([confirm |-> FALSE], sys)
                   IN {After(r, <<>>, <<Speak(r.value)>>, "shutdown")}
         ELSE {Outcome("True", <<Unavailable2("System commands")>>, <<"shutdown">>)}
    ELSE IF Contains(c, "cancel shutdown")
    THEN IF HasAttr(md, "system")
         THEN LET r == cancel_shutdown(sys)
              IN {After(r, <<>>, <<Speak(r.value)>>, "cancel shutdown")}
         ELSE {Outcome("True", <<Unavailable2("System commands")>>, <<"cancel shutdown">>)}
    ELSE IF Contains(c, "restart")
    THEN IF HasAttr(md, "system")
         THEN {After(restart(sys), <<>>, <<>>, "restart")}
         ELSE {Outcome("True", <<Unavailable2("System commands")>>, <<"restart">>)}
    ELSE IF Contains(c, "sleep")
    THEN IF HasAttr(md, "system")
         THEN {After(sleep(sys), <<>>, <<>>, "sleep")}
         ELSE {Outcome("True", <<Unavailable2("System commands")>>, <<"sleep">>)}
    ELSE IF Contains(c, "notepad") \/ Contains(c, "text editor")
    THEN IF HasAttr(md, "platform_utils") /\ HasAttr(md, "system")
         THEN LET f == find_application(cache,
                           IF is_windows(sys) THEN "notepad" ELSE "textedit")
              IN IF f.raised # "" THEN {Outcome(f.raised, <<>>, <<"notepad">>)}
                 ELSE IF f.value # ""
                      THEN {After(open_app(f.value, sys), <<>>, <<>>, "notepad")}
                      ELSE {Outcome("True", <<>>, <<"notepad">>)}
         ELSE {Outcome("True", <<Unavailable2("Application commands")>>, <<"notepad">>)}
    ELSE IF Contains(c, "weather")
    THEN IF HasAttr(md, "weather")
         THEN {After(r, <<>>, <<Speak(r.value)>>, "weather") : r \in get_weather("London")}
         ELSE {Outcome("True", <<Unavailable2("Weather features")>>, <<"weather">>)}
    ELSE IF Contains(c, "news")
    THEN IF HasAttr(md, "news")
         THEN {After(r, <<Speak("Here are today's top headlines:")>>,
                     HeadlineSpeech(r.value), "news") : r \in get_news}
         ELSE {Outcome("True", <<Unavailable2("News features")>>, <<"news">>)}
    ELSE IF Contains(c, "where am i")
    THEN IF HasAttr(md, "location")
         THEN {IF "city" \notin DOMAIN r.value
               THEN Outcome("KeyError", r.calls, <<"where am i">>)
               ELSE After(r, <<>>,
                          <<Speak("You are in " \o r.value.city \o ", "
                                  \o r.value.region \o ", " \o r.value.country)>>,
                          "where am i") : r \in get_location}
         ELSE {Outcome("True", <<Unavailable2("Location features")>>, <<"where am i">>)}
    ELSE IF Contains(c, "wikipedia")
    THEN IF HasAttr(md, "wiki")
         THEN LET r == search(Strip(Replace(c, "wikipedia", "")))
              IN {After(r, <<>>, <<Speak("According to Wikipedia"), Speak(r.value)>>,
                        "wikipedia")}
         ELSE {Outcome("True", <<Unavailable2("Wikipedia features")>>, <<"wikipedia">>)}
    ELSE IF Contains(c, "screenshot") \/ Contains(c, "take ss")
    THEN IF HasAttr(md, "screenshot")
         THEN LET r == take_screenshot
              IN {After(r, <<Speak("Taking screenshot")>>,
                        <<Speak("Screenshot saved to " \o r.value)>>, "screenshot")}
         ELSE {Outcome("True", <<Unavailable2("Screenshot features")>>, <<"screenshot">>)}
    ELSE {After(r, <<>>, <<Speak(r.value)>>, "default") : r \in generate_response(c)}

\* input validation: not command or not isinstance(command, str)
IsValidInput(raw) == raw.kind = "str" /\ raw.text # ""

\* the rules reading the command behind the turn recorded before it
rule_input_with_last_turn(c, h) ==
    IF Len(h) > 1 THEN h[Len(h) - 1].text \o " " \o c ELSE c

\* the text the triggers and the actions read: every test and every query
\* of the two chains is taken from the local `command`, none from
\* self.conversation_history
rule_input(c, h) == c

\* process_command(raw) on an assistant with the given fields: the set of
\* the outcomes the call may have; history is the conversation history the
\* call leaves behind
process_command(raw, md, sys, cache, hist) ==
    IF ~IsValidInput(raw)
    THEN {[result |-> "True", calls |-> <<>>, fired |-> <<>>, history |-> hist]}
    ELSE LET c == Normalize(raw.text)
         IN IF HasDangerousChar(c)
            THEN {[result |-> "True",
                   calls |-> <<Speak("I'm sorry, that command contains characters I can't process.")>>,
                   fired |-> <<>>, history |-> hist]}
            ELSE LET h == update_conversation_history(hist, c, "user")
                     t == rule_input(c, h)
                     b == BrowserChain(t, md)
                 IN IF b.result = "False"
                    THEN {[result |-> "False", calls |-> b.calls,
                           fired |-> b.fired, history |-> h]}
                    ELSE {[result |-> y.result, calls |-> b.calls \o y.calls,
                           fired |-> b.fired \o y.fired, history |-> h] :
                              y \in SystemChain(t, md, sys, cache)}

\* ------------------------------------------------------------------ inputs
Str(text) == [kind |-> "str", text |-> text]

\* the commands given to process_command: every rule alone, rules combined,
\* upper case and surrounding whitespace, disallowed characters, the empty
\* string and two values that are not text
Inputs ==
    { Str("goodbye"), Str("bye"), Str("open youtube"),
      Str("play lofi hip hop radio"), Str("play weather"), Str("play shutdown"),
      Str("search google for rust programming"),
      Str("search seagooglerch google"),
      Str("shutdown"), Str("confirm shutdown"), Str("cancel shutdown"),
      Str("restart"), Str("sleep"), Str("notepad"), Str("weather"),
      Str("news"), Str("where am i"), Str("wikipedia rust"), Str("take ss"),
      Str("hello"), Str("  Play Music\n"), Str("Restart; ls"),
      Str(Backquote \o "sleep" \o Backquote), Str(""),
      [kind |-> "NoneType", text |-> ""], [kind |-> "int", text |-> ""] }

NoCommand == [kind |-> "", text |-> ""]

\* ------------------------------------------------------------ specification
\* results of check_dependencies: nothing missing, one package missing,
\* every package missing
DepConfigs == {{}} \cup {{d} : d \in RequiredDeps} \cup {RequiredDeps}

\* no PlatformUtils call made so far
NoCall ==
    [op |-> "", arg |-> "", raised |-> "", value |-> "", scans_before |-> 0,
     scans_after |-> 0, index_before |-> <<>>, index_after |-> <<>>,
     max_depth |-> 0, cut |-> FALSE, built_before |-> FALSE]

NoVisit == [directory |-> "", depth |-> 0, elapsed |-> 0]

\* no scan running and none made
ScanIdle ==
    /\ now = 0
    /\ ticks = 0
    /\ nops = 0
    /\ scan_pc = "idle"
    /\ caller = [op |-> "", arg |-> "", built |-> FALSE]
    /\ scan_max_depth = 0
    /\ scan_timeout = 0
    /\ start_time = 0
    /\ locations_left = <<>>
    /\ pending = <<>>
    /\ scan_paths = <<>>
    /\ cut = FALSE
    /\ visit = NoVisit
    /\ candidates = <<>>
    /\ roots_visited = 0
    /\ errors = <<>>
    /\ scan_count = 0
    /\ prev = NoCall
    /\ last = NoCall
    /\ first_build = [done |-> FALSE, index |-> <<>>]

\* no voice-discovery call has been made
VoicesOff == voice_calls = <<>>

\* platform_utils as shipped: the module does not import time
ScanOff ==
    /\ time_bound = FALSE
    /\ ScanIdle

\* run() has not been called
RunOff ==
    /\ run_pc = "off"
    /\ run_error = ""
    /\ mic = "unchecked"
    /\ greeted = FALSE
    /\ listens = 0

\* an assistant as __init__ leaves it: the result of check_dependencies and
\* the platform are given by the installation
Init ==
    /\ VoicesOff
    /\ RunOff
    /\ appended = <<>>
    /\ ScanOff
    /\ missing_deps \in DepConfigs
    /\ platform_system \in Platforms
    /\ app_cache = <<>>
    /\ conversation_history = <<>>
    /\ command = NoCommand
    /\ result = "none"
    /\ calls = <<>>
    /\ fired = <<>>
    /\ ncalls = 0
    /\ attached = Attached(missing_deps)

ProcessCommand(raw) ==
    /\ ncalls < MaxCalls
    /\ \E out \in process_command(raw, missing_deps, platform_system,
                                   app_cache, conversation_history) :
          /\ conversation_history' = out.history
          /\ result' = out.result
          /\ calls' = out.calls
          /\ fired' = out.fired
          /\ attached' = attached_after(attached, out.calls)
    /\ command' = raw
    /\ ncalls' = ncalls + 1
    /\ UNCHANGED <<missing_deps, platform_system, app_cache>>
    /\ UNCHANGED runVars
    /\ UNCHANGED historyVars
    /\ UNCHANGED voiceVars
    /\ UNCHANGED scanVars

Next == \E raw \in Inputs : ProcessCommand(raw)

Spec == Init /\ [][Next]_vars

\* ================================================================ claims
\* vocabulary of the claims, stated over the last call
Called == result # "none"

N == Normalize(command.text)

DisallowedChars ==
    {Backquote, "$", "(", ")", "{", "}", "[", "]", "&", "|", ";", "\\"}

HasDisallowed(s) == \E i \in 1..Len(s) : CharAt(s, i) \in DisallowedChars

IsText == command.kind = "str" /\ command.text # ""

Accepted == Called /\ IsText /\ ~HasDisallowed(N)

FeatureCalls == {i \in 1..Len(calls) : calls[i].op # "speech.speak"}

Spoken(text) == \E i \in 1..Len(calls) : calls[i] = Speak(text)

OSShutdownCalls ==
    {i \in 1..Len(calls) :
        /\ calls[i].op = "os.system"
        /\ calls[i].arg \in {"shutdown /s /t 60", "sudo shutdown -h +1"}}

OSCancelCalls ==
    {i \in 1..Len(calls) :
        /\ calls[i].op = "os.system"
        /\ calls[i].arg \in {"shutdown /a", "sudo shutdown -c"}}

\* C1: a command whose normalized text holds a disallowed character makes
\* process_command return True after speaking the clarification message and
\* nothing else: no feature action is invoked.
C1_DisallowedRejected ==
    (Called /\ IsText /\ HasDisallowed(N)) =>
        /\ result = "True"
        /\ calls = <<Speak("I'm sorry, that command contains characters I can't process.")>>
        /\ FeatureCalls = {}

C1_Witness ==
    /\ Called /\ IsText /\ HasDisallowed(N)
    /\ Contains(N, "restart")
    /\ result = "True"

\* C2: while a command that contains "shutdown" but not "confirm shutdown"
\* is processed, the OS shutdown command is never issued.
C2_NoShutdownWithoutConfirm ==
    (Called /\ IsText /\ Contains(N, "shutdown") /\ ~Contains(N, "confirm shutdown"))
        => OSShutdownCalls = {}

C2_Witness ==
    /\ Accepted
    /\ Contains(N, "shutdown") /\ ~Contains(N, "confirm shutdown")
    /\ "shutdown" \in {fired[i] : i \in 1..Len(fired)}
    /\ ncalls = MaxCalls

\* C3: an accepted command that contains "confirm shutdown" and no farewell
\* word issues the OS shutdown command exactly once and returns True.
C3_ConfirmedShutdownIssued ==
    (Accepted /\ Contains(N, "confirm shutdown") /\ ~Contains(N, "bye")) =>
        /\ Cardinality(OSShutdownCalls) = 1
        /\ result = "True"

\* C4: an accepted command that contains "shutdown" without "confirm
\* shutdown" and no farewell word speaks the confirmation prompt and
\* returns True.
C4_ShutdownPrompts ==
    (Accepted /\ Contains(N, "shutdown") /\ ~Contains(N, "confirm shutdown")
        /\ ~Contains(N, "bye")) =>
        /\ Spoken("Please confirm by saying 'confirm shutdown'")
        /\ result = "True"

\* C5: an accepted command that contains "cancel shutdown" and no farewell
\* word invokes cancel_shutdown, without any confirmation phrase, and does
\* not invoke the shutdown action.
C5_CancelShutdown ==
    (Accepted /\ Contains(N, "cancel shutdown") /\ ~Contains(N, "bye")) =>
        /\ OSCancelCalls # {}
        /\ OSShutdownCalls = {}
        /\ "shutdown" \notin {fired[i] : i \in 1..Len(fired)}

\* C6: an accepted command that contains "goodbye" or "bye" returns False
\* and leaves the history ending with the user turn followed by exactly one
\* assistant turn holding the farewell response.
C6_FarewellTurn ==
    (Accepted /\ (Contains(N, "goodbye") \/ Contains(N, "bye"))) =>
        /\ result = "False"
        /\ Len(conversation_history) >= 2
        /\ conversation_history[Len(conversation_history)] =
              [text |-> "Goodbye! Have a great day!", speaker |-> "assistant"]
        /\ conversation_history[Len(conversation_history) - 1] =
              [text |-> N, speaker |-> "user"]

\* C7: whenever process_command returns, it returns False exactly when the
\* input was accepted and its normalized text contains "bye", and True for
\* every other input.
C7_FalseOnlyOnFarewell ==
    (Called /\ result \in {"True", "False"}) =>
        ((result = "False") <=> (Accepted /\ Contains(N, "bye")))

C7_Witness ==
    /\ Accepted
    /\ Contains(N, "bye") /\ ~Contains(N, "goodbye")
    /\ result = "False"

\* the rules in their priority order and their substring triggers
RuleOrder ==
    <<"farewell", "open youtube", "play", "search google", "shutdown",
      "cancel shutdown", "restart", "sleep", "notepad", "weather", "news",
      "where am i", "wikipedia", "screenshot">>

Trigger(rule, c) ==
    CASE rule = "farewell" -> Contains(c, "goodbye") \/ Contains(c, "bye")
      [] rule = "search google" -> Contains(c, "search") /\ Contains(c, "google")
      [] rule = "notepad" -> Contains(c, "notepad") \/ Contains(c, "text editor")
      [] rule = "screenshot" -> Contains(c, "screenshot") \/ Contains(c, "take ss")
      [] OTHER -> Contains(c, rule)

Matching(c) == {i \in 1..Len(RuleOrder) : Trigger(RuleOrder[i], c)}

FirstMatch(c) ==
    IF Matching(c) = {} THEN "none"
    ELSE RuleOrder[CHOOSE i \in Matching(c) : \A j \in Matching(c) : i <= j]

FiredRules == SelectSeq(fired, LAMBDA r : r # "default")

\* C8: for an accepted command at most one rule fires, and it is the first
\* rule of the priority order whose trigger matches.
C8_FirstMatchOnly ==
    Accepted =>
        /\ Len(FiredRules) <= 1
        /\ Len(FiredRules) = 1 => FiredRules[1] = FirstMatch(N)

\* C9: for an accepted command the default responder is invoked exactly
\* when no rule's trigger matches the normalized text.
C9_DefaultIffNoMatch ==
    Accepted =>
        ((\E i \in 1..Len(calls) : calls[i].op = "generate_response")
            <=> Matching(N) = {})

\* the gated rules: the provider call of each, its capability as __init__
\* attaches it, and its fixed response when the capability is missing
GatedRules == {"play", "weather", "news", "wikipedia", "screenshot"}

ProviderOp(rule) ==
    CASE rule = "play" -> "browser.search_youtube"
      [] rule = "weather" -> "weather.get_weather"
      [] rule = "news" -> "news.get_news"
      [] rule = "wikipedia" -> "wiki.search"
      [] rule = "screenshot" -> "screenshot.take_screenshot"

CapabilityMissing(rule) ==
    CASE rule \in {"play", "weather", "news"} -> "pywhatkit" \in missing_deps
      [] rule = "wikipedia" -> "wikipedia" \in missing_deps
      [] rule = "screenshot" -> "pyautogui" \in missing_deps

UnavailableText(rule) ==
    CASE rule = "play" ->
            "I'm sorry, YouTube features are unavailable due to missing dependencies."
      [] rule = "weather" -> "Weather features are unavailable due to missing dependencies."
      [] rule = "news" -> "News features are unavailable due to missing dependencies."
      [] rule = "wikipedia" -> "Wikipedia features are unavailable due to missing dependencies."
      [] rule = "screenshot" -> "Screenshot features are unavailable due to missing dependencies."

\* C10: while the capability of a gated rule is missing, no command calls
\* its provider, and every accepted command whose matched rule it is gets
\* the fixed unavailable response and returns True.
C10_CapabilityGating ==
    \A rule \in GatedRules :
        (Called /\ CapabilityMissing(rule)) =>
            /\ \A i \in 1..Len(calls) : calls[i].op # ProviderOp(rule)
            /\ (Accepted /\ FirstMatch(N) = rule) =>
                  /\ Spoken(UnavailableText(rule))
                  /\ result = "True"

\* ============================================================ run loop
\* ----------------------------------------------------------- bounds
MaxListens == 2

\* ------------------------------------------------- speech_manager, run
\* the texts the recognizer may return
Heard ==
    {"Goodbye", "shutdown", "confirm shutdown", "notepad", "where am i",
     "weather", "Hello", "restart", "Restart now", "sleep"}

\* SpeechManager.listen: recognizer.listen stands outside the try block, so
\* its WaitTimeoutError (no speech within the timeout) leaves listen(); a
\* failed recognition is caught and gives None; a recognized text is
\* returned lower-cased
listen ==
    {[raised |-> "WaitTimeoutError", value |-> NoCommand]}
    \cup {[raised |-> "", value |-> [kind |-> "NoneType", text |-> ""]]}
    \cup {[raised |-> "", value |-> Str(Lower(q))] : q \in Heard}

\* SpeechManager.verify_microphone: every failure is caught and gives False
verify_microphone == {TRUE, FALSE}

\* the test with the second package left out
SpeechDepsMissing_recognition_only(md) == "speech_recognition" \in md

\* "speech_recognition" in self.missing_deps or "pyttsx3" in self.missing_deps
SpeechDepsMissing(md) == "speech_recognition" \in md \/ "pyttsx3" \in md

\* a constructed assistant on which run() is called
InitRun ==
    /\ VoicesOff
    /\ missing_deps \in DepConfigs
    /\ platform_system \in Platforms
    /\ app_cache = <<>>
    /\ conversation_history = <<>>
    /\ command = NoCommand
    /\ result = "none"
    /\ calls = <<>>
    /\ fired = <<>>
    /\ ncalls = 0
    /\ attached = Attached(missing_deps)
    /\ run_pc = "start"
    /\ run_error = ""
    /\ mic = "unchecked"
    /\ greeted = FALSE
    /\ listens = 0
    /\ appended = <<>>
    /\ ScanOff

\* run() up to the loop: the dependency gate, the microphone check and the
\* greeting
RunStart ==
    /\ run_pc = "start"
    /\ IF SpeechDepsMissing(missing_deps)
       THEN /\ run_pc' = "returned"
            /\ UNCHANGED <<mic, greeted>>
       ELSE \E ok \in verify_microphone :
               IF ~ok
               THEN /\ mic' = "failed"
                    /\ run_pc' = "returned"
                    /\ UNCHANGED greeted
               ELSE /\ mic' = "ok"
                    /\ greeted' = TRUE
                    /\ run_pc' = "loop"
    /\ UNCHANGED <<run_error, listens>>
    /\ UNCHANGED assistantVars
    /\ UNCHANGED dispatchVars
    /\ UNCHANGED historyVars
    /\ UNCHANGED voiceVars
    /\ UNCHANGED scanVars

\* one iteration of the loop: listen, then process_command when the command
\* is truthy; nothing in run() catches an exception
RunIteration ==
    /\ run_pc = "loop"
    /\ listens < MaxListens
    /\ listens' = listens + 1
    /\ \E heard \in listen :
          IF heard.raised # ""
          THEN /\ run_pc' = "raised"
               /\ run_error' = heard.raised
               /\ UNCHANGED dispatchVars
          ELSE IF ~IsValidInput(heard.value)
          THEN /\ UNCHANGED <<run_pc, run_error>>
               /\ UNCHANGED dispatchVars
          ELSE \E out \in process_command(heard.value, missing_deps, platform_system,
                                          app_cache, conversation_history) :
                  /\ conversation_history' = out.history
                  /\ result' = out.result
                  /\ calls' = out.calls
                  /\ fired' = out.fired
                  /\ command' = heard.value
                  /\ ncalls' = ncalls + 1
                  /\ attached' = attached_after(attached, out.calls)
                  /\ run_pc' = IF out.result = "True" THEN "loop"
                               ELSE IF out.result = "False" THEN "returned"
                               ELSE "raised"
                  /\ run_error' = IF out.result \in {"True", "False"} THEN ""
                                  ELSE out.result
    /\ UNCHANGED <<mic, greeted>>
    /\ UNCHANGED assistantVars
    /\ UNCHANGED historyVars
    /\ UNCHANGED voiceVars
    /\ UNCHANGED scanVars

NextRun == RunStart \/ RunIteration

SpecRun == InitRun /\ [][NextRun]_vars

\* C11: run() reaches the greeting, listen or process_command only when
\* both speech packages are present and the microphone check succeeded;
\* otherwise it returns without any of them.
C11_RunGate ==
    /\ (greeted \/ listens > 0 \/ ncalls > 0 \/ run_pc = "loop") =>
          /\ "speech_recognition" \notin missing_deps
          /\ "pyttsx3" \notin missing_deps
          /\ mic = "ok"
    /\ (run_pc # "start"
          /\ ("speech_recognition" \in missing_deps \/ "pyttsx3" \in missing_deps
              \/ mic = "failed")) =>
          /\ run_pc = "returned"
          /\ ~greeted /\ listens = 0 /\ ncalls = 0

C11_Witness ==
    /\ run_pc = "returned"
    /\ "pyttsx3" \in missing_deps /\ "speech_recognition" \notin missing_deps
    /\ ~greeted /\ listens = 0

\* C12: inside the loop process_command never raises: whatever the command
\* and the answers of its collaborators it returns True, and run() returns
\* only after a farewell made it return False.
C12_LoopEndsOnlyOnFarewell ==
    greeted =>
        /\ result \in {"none", "True", "False"}
        /\ run_pc = "returned" => result = "False"


\* ==================================================== conversation history
\* ----------------------------------------------------------- bounds
MaxAppends == 12

\* the turns handed to update_conversation_history: process_command passes
\* the normalised command with speaker "user"; the speaker is a parameter
\* and another caller may pass "assistant"
Turns ==
    {[text |-> "hello", speaker |-> "user"],
     [text |-> "Hello! How can I help?", speaker |-> "assistant"]}

InitHistory ==
    /\ VoicesOff
    /\ RunOff
    /\ missing_deps = {}
    /\ platform_system = "Linux"
    /\ app_cache = <<>>
    /\ conversation_history = <<>>
    /\ command = NoCommand
    /\ result = "none"
    /\ calls = <<>>
    /\ fired = <<>>
    /\ ncalls = 0
    /\ attached = Attached(missing_deps)
    /\ appended = <<>>
    /\ ScanOff

UpdateConversationHistory(turn) ==
    /\ Len(appended) < MaxAppends
    /\ conversation_history' =
          update_conversation_history(conversation_history, turn.text, turn.speaker)
    /\ appended' = Append(appended, turn)
    /\ UNCHANGED assistantVars
    /\ UNCHANGED <<command, result, calls, fired, ncalls, attached>>
    /\ UNCHANGED runVars
    /\ UNCHANGED scanVars
    /\ UNCHANGED voiceVars

NextHistory == \E turn \in Turns : UpdateConversationHistory(turn)

SpecHistory == InitHistory /\ [][NextHistory]_vars

HistoryLimit == 10

\* C13: after n appends the history has min(n, 10) turns, never more than
\* 10, and they are the most recent min(n, 10) appended turns in the order
\* they were appended.
C13_HistoryWindow ==
    LET n == Len(appended)
        k == IF n < HistoryLimit THEN n ELSE HistoryLimit
    IN /\ Len(conversation_history) <= HistoryLimit
       /\ Len(conversation_history) = k
       /\ \A i \in 1..k : conversation_history[i] = appended[n - k + i]

\* twelve appends: ten turns are kept and the first two are gone
C13_Witness ==
    /\ Len(appended) = 12
    /\ Len(conversation_history) = 10
    /\ appended[1] # appended[3]
    /\ conversation_history[1] = appended[3]
    /\ conversation_history[10] = appended[12]


\* C14: after an accepted command every response spoken while processing it
\* stands in the history as an assistant turn, behind the user turn of that
\* command.
C14_ResponsesRecorded ==
    Accepted =>
        \A i \in 1..Len(calls) :
            calls[i].op = "speech.speak" =>
                \E j, k \in 1..Len(conversation_history) :
                    /\ j < k
                    /\ conversation_history[j] = [text |-> N, speaker |-> "user"]
                    /\ conversation_history[k] =
                          [text |-> calls[i].arg, speaker |-> "assistant"]


\* ====================================================== application scan
\* ------------------------------------------------------------- filesystem
\* A directory entry as Path.iterdir yields it: kind is "dir" or "file", x
\* tells whether os.access(path, os.X_OK) holds.
Entry(name, kind, x) == [name |-> name, kind |-> kind, x |-> x]

\* PlatformUtils.COMMON_APP_LOCATIONS, the home directory written out
COMMON_APP_LOCATIONS ==
    [Windows |-> <<"C:/Program Files", "C:/Program Files (x86)",
                   "C:/Users/u/AppData/Local",
                   "C:/Users/u/AppData/Local/Programs",
                   "C:/Windows/System32">>,
     Darwin |-> <<"/Applications", "/Users/u/Applications",
                  "/System/Applications">>,
     Linux |-> <<"/usr/bin", "/usr/local/bin", "/opt", "/home/u/.local/bin">>]

\* The filesystem of the machine, one per platform, unchanged during a
\* behaviour: each existing directory with its entries in iterdir order.
\* A root that is not listed does not exist.
WindowsTree ==
    [d \in {"C:/Program Files", "C:/Program Files/Editor",
            "C:/Program Files/Editor/bin", "C:/Program Files (x86)",
            "C:/Users/u/AppData/Local", "C:/Users/u/AppData/Local/Programs",
            "C:/Windows/System32", "C:/Windows/System32/drivers.exe"} |->
        CASE d = "C:/Program Files" -> <<Entry("Editor", "dir", FALSE)>>
          [] d = "C:/Program Files/Editor" ->
                <<Entry("Notepad.exe", "file", TRUE), Entry("bin", "dir", FALSE)>>
          [] d = "C:/Program Files/Editor/bin" ->
                <<Entry("helper.EXE", "file", TRUE)>>
          [] d = "C:/Program Files (x86)" -> <<Entry("notepad.exe", "file", TRUE)>>
          [] d = "C:/Users/u/AppData/Local" ->
                <<Entry("Programs", "dir", FALSE), Entry("notes.txt", "file", FALSE)>>
          [] d = "C:/Users/u/AppData/Local/Programs" ->
                <<Entry("Code.exe", "file", TRUE)>>
          [] d = "C:/Windows/System32" ->
                <<Entry("cmd.exe", "file", TRUE), Entry("drivers.exe", "dir", FALSE),
                  Entry("notepad.exe", "file", TRUE)>>
          [] OTHER -> <<>>]

DarwinTree ==
    [d \in {"/Applications", "/Applications/Safari.app",
            "/Applications/Utilities", "/Applications/Utilities/Terminal.app",
            "/Applications/Utilities/Terminal.app/Helper.app",
            "/System/Applications", "/System/Applications/TextEdit.app",
            "/System/Applications/safari.app"} |->
        CASE d = "/Applications" ->
                <<Entry("Safari.app", "dir", FALSE), Entry("Utilities", "dir", FALSE),
                  Entry("stub.app", "file", FALSE)>>
          [] d = "/Applications/Utilities" -> <<Entry("Terminal.app", "dir", FALSE)>>
          [] d = "/Applications/Utilities/Terminal.app" ->
                <<Entry("Helper.app", "dir", FALSE)>>
          [] d = "/System/Applications" ->
                <<Entry("TextEdit.app", "dir", FALSE), Entry("safari.app", "dir", FALSE)>>
          [] OTHER -> <<>>]

LinuxTree ==
    [d \in {"/usr/bin", "/usr/bin/vendor", "/usr/local/bin", "/opt",
            "/opt/app", "/opt/app/bin", "/opt/locked"} |->
        CASE d = "/usr/bin" ->
                <<Entry("python3.11", "file", TRUE), Entry("README", "file", FALSE),
                  Entry("vendor", "dir", TRUE)>>
          [] d = "/usr/bin/vendor" -> <<Entry("Tool", "file", TRUE)>>
          [] d = "/usr/local/bin" -> <<Entry("python3", "file", TRUE)>>
          [] d = "/opt" -> <<Entry("locked", "dir", FALSE), Entry("app", "dir", TRUE)>>
          [] d = "/opt/app" -> <<Entry("bin", "dir", TRUE), Entry("tool", "file", TRUE)>>
          [] d = "/opt/app/bin" -> <<Entry("code", "file", TRUE)>>
          [] OTHER -> <<>>]

Tree(sys) ==
    CASE sys = "Windows" -> WindowsTree
      [] sys = "Darwin" -> DarwinTree
      [] OTHER -> LinuxTree

\* directories the process may not list: iterdir raises PermissionError
Unreadable(sys) == IF sys = "Linux" THEN {"/opt/locked"} ELSE {}

\* directory / name
Join(dir, name) == dir \o "/" \o name

\* Path.iterdir: the entries with their full paths, or the exception
iterdir(sys, dir) ==
    IF dir \notin DOMAIN Tree(sys)
    THEN [raised |-> "FileNotFoundError", value |-> <<>>]
    ELSE IF dir \in Unreadable(sys)
    THEN [raised |-> "PermissionError", value |-> <<>>]
    ELSE [raised |-> "",
          value |-> [i \in 1..Len(Tree(sys)[dir]) |->
                        [path |-> Join(dir, Tree(sys)[dir][i].name),
                         name |-> Tree(sys)[dir][i].name,
                         kind |-> Tree(sys)[dir][i].kind,
                         x |-> Tree(sys)[dir][i].x]]]


\* ---------------------------------------------------------- pathlib, os
EndsWith(s, suffix) ==
    Len(s) >= Len(suffix) /\ SubSeq(s, Len(s) - Len(suffix) + 1, Len(s)) = suffix

\* PurePath.stem: the name without its last suffix; a dot at the first or
\* the last position starts no suffix
Stem(name) ==
    LET dots == {i \in 1..Len(name) : CharAt(name, i) = "."}
    IN IF dots = {} THEN name
       ELSE LET p == CHOOSE i \in dots : \A j \in dots : j <= i
            IN IF 1 < p /\ p < Len(name) THEN SubSeq(name, 1, p - 1) ELSE name

\* the pattern "*" + suffix against an entry name: pathlib matches without
\* regard to case on Windows and exactly elsewhere
Matches(sys, name, suffix) ==
    IF sys = "Windows" THEN EndsWith(Lower(name), suffix) ELSE EndsWith(name, suffix)

RECURSIVE rglob(_, _, _)
RECURSIVE rglob_below(_, _, _, _)

\* Path.rglob("*" + suffix): the matching entries of the directory itself,
\* then those of every directory below it, at any depth; a directory that
\* is missing or cannot be listed yields nothing
rglob(sys, dir, suffix) ==
    LET ls == iterdir(sys, dir)
    IN IF ls.raised # "" THEN <<>>
       ELSE SelectSeq(ls.value, LAMBDA e : Matches(sys, e.name, suffix))
            \o rglob_below(sys, ls.value, 1, suffix)

rglob_below(sys, entries, i, suffix) ==
    IF i > Len(entries) THEN <<>>
    ELSE (IF entries[i].kind = "dir" THEN rglob(sys, entries[i].path, suffix)
          ELSE <<>>)
         \o rglob_below(sys, entries, i + 1, suffix)

\* a candidate: app_name is stem.lower(), path is str(path)
Candidate(e) == [app_name |-> Lower(Stem(e.name)), path |-> e.path]

\* ---------------------------------------------------------- the scanners
\* the index keeps the later candidate of a name
enter_overwriting(paths, c) ==
    [n \in DOMAIN paths \cup {c.app_name} |->
        IF n = c.app_name THEN c.path ELSE paths[n]]

\* if app_name not in paths: paths[app_name] = str(path)
enter(paths, c) ==
    IF c.app_name \in DOMAIN paths THEN paths
    ELSE [n \in DOMAIN paths \cup {c.app_name} |->
             IF n = c.app_name THEN c.path ELSE paths[n]]

RECURSIVE enter_all(_, _, _)
\* the loop of a scanner over its candidates
enter_all(paths, cands, i) ==
    IF i > Len(cands) THEN paths
    ELSE enter_all(enter(paths, cands[i]), cands, i + 1)

\* the candidates the scanner of the platform finds for one directory, in
\* the order it meets them
\*   Windows: rglob("*.exe") entries that are files
\*   macOS:   rglob("*.app") entries that are directories
\*   Linux:   iterdir entries that are files with the execute permission
\* an exception of the listing is caught inside the scanner
Candidates(sys, directory) ==
    LET found ==
            IF sys = "Windows"
            THEN SelectSeq(rglob(sys, directory, ".exe"), LAMBDA e : e.kind = "file")
            ELSE IF sys = "Darwin"
            THEN SelectSeq(rglob(sys, directory, ".app"), LAMBDA e : e.kind = "dir")
            ELSE SelectSeq(iterdir(sys, directory).value,
                           LAMBDA e : e.kind = "file" /\ e.x)
    IN [i \in 1..Len(found) |-> Candidate(found[i])]

_scan_windows_directory(sys, directory, paths) ==
    enter_all(paths, Candidates(sys, directory), 1)

_scan_mac_directory(sys, directory, paths) ==
    enter_all(paths, Candidates(sys, directory), 1)

_scan_linux_directory(sys, directory, paths) ==
    enter_all(paths, Candidates(sys, directory), 1)

\* the subdirectories _scan_directory descends into, in iterdir order; when
\* the listing raises, the exception is caught and there are none
Subdirs(sys, directory) ==
    LET ls == iterdir(sys, directory)
        dirs == SelectSeq(ls.value, LAMBDA e : e.kind = "dir")
    IN [i \in 1..Len(dirs) |-> dirs[i].path]

\* the scanner _scan_directory picks: is_windows, then is_mac, else Linux
scan_platform_directory(sys, directory, paths) ==
    IF sys = "Windows" THEN _scan_windows_directory(sys, directory, paths)
    ELSE IF sys = "Darwin" THEN _scan_mac_directory(sys, directory, paths)
    ELSE _scan_linux_directory(sys, directory, paths)

RECURSIVE _scan_directory(_, _, _, _, _)
RECURSIVE _scan_subdirectories(_, _, _, _, _, _)

\* _scan_directory run to its end: the index after the directory and what
\* lies below it, down to max_depth, have been scanned
_scan_directory(sys, directory, paths, depth, max_depth) ==
    IF depth > max_depth THEN paths
    ELSE LET scanned == scan_platform_directory(sys, directory, paths)
         IN IF depth < max_depth
            THEN _scan_subdirectories(sys, Subdirs(sys, directory), 1, scanned,
                                      depth + 1, max_depth)
            ELSE scanned

_scan_subdirectories(sys, subdirs, i, paths, depth, max_depth) ==
    IF i > Len(subdirs) THEN paths
    ELSE _scan_subdirectories(sys, subdirs, i + 1,
             _scan_directory(sys, subdirs[i], paths, depth, max_depth),
             depth, max_depth)


\* ------------------------------------------------------------ bounds
MaxOps == 2
MaxTicks == 1

\* arguments of a direct scan_for_applications call: the defaults, and a
\* shallow scan whose deadline passes with the first advance of the clock
ScanArgs ==
    {[max_depth |-> 3, timeout |-> 60], [max_depth |-> 1, timeout |-> 0]}
\* seconds by which the clock may be found advanced at the next reading
TickSizes == {1, 61}
\* names looked up: main.py asks for "notepad" on Windows and for
\* "textedit" elsewhere; "python3" is a second name, asked for in two cases
LookupNames(sys) ==
    {IF sys = "Windows" THEN "notepad" ELSE "textedit", "Python3", "python3"}

\* --------------------------------------------- PlatformUtils, step by step
\* platform_utils.py does not import time.  Whether the name resolves when
\* scan_for_applications reads time.time() is a fact of the namespace the
\* module runs in: it does not in the module as shipped, and the call ends
\* with NameError; it does once the embedding has bound it.  Both are
\* initial states, and only the second lets a scan walk.
InitScan ==
    /\ VoicesOff
    /\ RunOff
    /\ appended = <<>>
    /\ missing_deps = {}
    /\ platform_system \in Platforms
    /\ app_cache = <<>>
    /\ conversation_history = <<>>
    /\ command = NoCommand
    /\ result = "none"
    /\ calls = <<>>
    /\ fired = <<>>
    /\ ncalls = 0
    /\ attached = Attached(missing_deps)
    /\ time_bound \in BOOLEAN
    /\ ScanIdle

\* the record of a completed call; value is the path find_application
\* returns ("" for None); the dict of scan_for_applications and the key
\* list of get_installed_apps are index_after and its domain
CallRecord(op, arg, raised, value, before, after, index, md, wascut, built) ==
    [op |-> op, arg |-> arg, raised |-> raised, value |-> value,
     scans_before |-> before, scans_after |-> after,
     index_before |-> app_cache, index_after |-> index,
     max_depth |-> md, cut |-> wascut, built_before |-> built]

\* scan_for_applications up to the head of its loop, entered from op
StartScan(op, arg, md, to) ==
    /\ scan_count' = scan_count + 1
    /\ nops' = nops + 1
    /\ IF ~time_bound
       THEN /\ prev' = last
            /\ last' = CallRecord(op, arg, scan_for_applications(app_cache).raised,
                                  "", scan_count, scan_count + 1, app_cache, md,
                                  FALSE, first_build.done)
            /\ UNCHANGED <<scan_pc, caller, scan_max_depth, scan_timeout, start_time,
                           locations_left, pending, scan_paths, cut, visit,
                           candidates, roots_visited, errors>>
       ELSE /\ scan_pc' = "locations"
            /\ caller' = [op |-> op, arg |-> arg, built |-> first_build.done]
            /\ scan_max_depth' = md
            /\ scan_timeout' = to
            /\ start_time' = now
            /\ locations_left' = COMMON_APP_LOCATIONS[platform_system]
            /\ pending' = <<>>
            /\ scan_paths' = <<>>
            /\ cut' = FALSE
            /\ visit' = NoVisit
            /\ candidates' = <<>>
            /\ roots_visited' = 0
            /\ errors' = <<>>
            /\ UNCHANGED <<prev, last>>
    /\ UNCHANGED <<time_bound, now, ticks, first_build>>
    /\ UNCHANGED assistantVars
    /\ UNCHANGED dispatchVars
    /\ UNCHANGED runVars
    /\ UNCHANGED historyVars
    /\ UNCHANGED voiceVars

\* a call that ends without scanning
Answer(op, arg, value) ==
    /\ nops' = nops + 1
    /\ prev' = last
    /\ last' = CallRecord(op, arg, "", value, scan_count, scan_count, app_cache, 0,
                          FALSE, first_build.done)
    /\ UNCHANGED <<time_bound, now, ticks, scan_pc, caller, scan_max_depth,
                   scan_timeout, start_time, locations_left, pending, scan_paths,
                   cut, visit, candidates, roots_visited, errors, scan_count,
                   first_build>>
    /\ UNCHANGED assistantVars
    /\ UNCHANGED dispatchVars
    /\ UNCHANGED runVars
    /\ UNCHANGED historyVars
    /\ UNCHANGED voiceVars

ScanForApplications(md, to) ==
    /\ scan_pc = "idle"
    /\ nops < MaxOps
    /\ StartScan("scan_for_applications", "", md, to)

FindApplication(app_name) ==
    /\ scan_pc = "idle"
    /\ nops < MaxOps
    /\ IF in_cache(app_cache, lookup_key(app_name))
       THEN Answer("find_application", app_name, app_cache[lookup_key(app_name)])
       ELSE StartScan("find_application", app_name, 3, 60)

GetInstalledApps ==
    /\ scan_pc = "idle"
    /\ nops < MaxOps
    /\ IF cache_empty(app_cache)
       THEN StartScan("get_installed_apps", "", 3, 60)
       ELSE Answer("get_installed_apps", "", "")


\* time.time() - start_time > timeout, as the loop head reads it
TimedOut == now - start_time > scan_timeout

\* the handlers of _scan_directory with the second one, except Exception,
\* left out
caught_permission_only(exc) == exc = "PermissionError"

\* except PermissionError, then except Exception: every exception a
\* listing raises is caught and logged
caught(exc) == exc \in {"PermissionError", "FileNotFoundError", "OSError"}

\* one call of _scan_directory up to its recursive calls: the depth test,
\* the scanner of the platform on the directory, then the subdirectories
\* queued in iterdir order ahead of the calls already waiting.  The scanner
\* catches what its own listing raises; what directory.iterdir() raises
\* when the subdirectories are listed goes to the handlers of
\* _scan_directory, and past them only if they do not catch it.
VisitDirectory(v, waiting) ==
    LET skipped == v.depth > scan_max_depth
        descends == ~skipped /\ v.depth < scan_max_depth
        exc == iterdir(platform_system, v.directory).raised
        subdirs == IF descends THEN Subdirs(platform_system, v.directory) ELSE <<>>
        raises == exc # "" /\ (descends \/ (~skipped /\ platform_system = "Linux"))
        escapes == descends /\ exc # "" /\ ~caught(exc)
    IN /\ visit' = [directory |-> v.directory, depth |-> v.depth,
                    elapsed |-> now - start_time]
       /\ candidates' = IF skipped THEN candidates
                        ELSE candidates \o Candidates(platform_system, v.directory)
       /\ scan_paths' = IF skipped THEN scan_paths
                        ELSE scan_platform_directory(platform_system, v.directory,
                                                     scan_paths)
       /\ errors' = IF raises
                    THEN Append(errors, [directory |-> v.directory, raised |-> exc])
                    ELSE errors
       /\ pending' = IF escapes THEN <<>>
                     ELSE [i \in 1..Len(subdirs) |->
                              [directory |-> subdirs[i], depth |-> v.depth + 1]]
                          \o waiting
       /\ scan_pc' = IF escapes THEN "raising"
                     ELSE IF Len(subdirs) = 0 /\ Len(waiting) = 0
                     THEN "locations" ELSE "walk"

\* the loop head with a location left and the deadline not passed:
\* _scan_directory(Path(location), paths, depth=0, max_depth) is called
NextLocation ==
    /\ scan_pc = "locations"
    /\ locations_left # <<>>
    /\ ~TimedOut
    /\ VisitDirectory([directory |-> Head(locations_left), depth |-> 0], <<>>)
    /\ locations_left' = Tail(locations_left)
    /\ roots_visited' = roots_visited + 1
    /\ UNCHANGED <<time_bound, now, ticks, nops, caller, scan_max_depth,
                   scan_timeout, start_time, cut, scan_count, prev, last,
                   first_build>>
    /\ UNCHANGED assistantVars
    /\ UNCHANGED dispatchVars
    /\ UNCHANGED runVars
    /\ UNCHANGED historyVars
    /\ UNCHANGED voiceVars

\* the next recursive call of _scan_directory, on a subdirectory
Visit ==
    /\ scan_pc = "walk"
    /\ VisitDirectory(Head(pending), Tail(pending))
    /\ UNCHANGED <<time_bound, now, ticks, nops, caller, scan_max_depth,
                   scan_timeout, start_time, locations_left, cut, roots_visited,
                   scan_count, prev, last, first_build>>
    /\ UNCHANGED assistantVars
    /\ UNCHANGED dispatchVars
    /\ UNCHANGED runVars
    /\ UNCHANGED historyVars
    /\ UNCHANGED voiceVars

\* what the caller of the scan returns once app_cache is assigned
ReturnValue(op, arg, index) ==
    IF op = "find_application" /\ lookup_key(arg) \in DOMAIN index
    THEN index[lookup_key(arg)]
    ELSE ""

\* the loop ends, by exhaustion or by the break at the deadline: app_cache
\* is assigned and the calling operation returns; or an exception no
\* handler caught leaves scan_for_applications and its caller
ScanReturn ==
    /\ \/ scan_pc = "locations" /\ (locations_left = <<>> \/ TimedOut)
       \/ scan_pc = "raising"
    /\ prev' = last
    /\ IF scan_pc = "raising"
       THEN /\ last' = CallRecord(caller.op, caller.arg, errors[Len(errors)].raised,
                                  "", scan_count - 1, scan_count, app_cache,
                                  scan_max_depth, FALSE, caller.built)
            /\ UNCHANGED <<cut, app_cache, first_build>>
       ELSE /\ cut' = (locations_left # <<>>)
            /\ app_cache' = scan_paths
            /\ last' = CallRecord(caller.op, caller.arg, "",
                                  ReturnValue(caller.op, caller.arg, scan_paths),
                                  scan_count - 1, scan_count, scan_paths,
                                  scan_max_depth, locations_left # <<>>, caller.built)
            /\ first_build' = IF ~first_build.done /\ locations_left = <<>>
                              THEN [done |-> TRUE, index |-> scan_paths]
                              ELSE first_build
    /\ scan_pc' = "idle"
    /\ UNCHANGED <<time_bound, now, ticks, nops, caller, scan_max_depth,
                   scan_timeout, start_time, locations_left, pending, scan_paths,
                   visit, candidates, roots_visited, errors, scan_count>>
    /\ UNCHANGED <<missing_deps, platform_system>>
    /\ UNCHANGED dispatchVars
    /\ UNCHANGED runVars
    /\ UNCHANGED historyVars
    /\ UNCHANGED voiceVars

\* the clock is found advanced while a scan is running
Tick(d) ==
    /\ scan_pc # "idle"
    /\ ticks < MaxTicks
    /\ now' = now + d
    /\ ticks' = ticks + 1
    /\ UNCHANGED <<time_bound, nops, scan_pc, caller, scan_max_depth,
                   scan_timeout, start_time, locations_left, pending, scan_paths,
                   cut, visit, candidates, roots_visited, errors, scan_count,
                   prev, last, first_build>>
    /\ UNCHANGED assistantVars
    /\ UNCHANGED dispatchVars
    /\ UNCHANGED runVars
    /\ UNCHANGED historyVars
    /\ UNCHANGED voiceVars

NextScan ==
    \/ \E args \in ScanArgs : ScanForApplications(args.max_depth, args.timeout)
    \/ \E app_name \in LookupNames(platform_system) : FindApplication(app_name)
    \/ GetInstalledApps
    \/ NextLocation
    \/ Visit
    \/ ScanReturn
    \/ \E d \in TickSizes : Tick(d)

SpecScan == InitScan /\ [][NextScan]_vars

\* a scan whose loop reached every location
FullIndex(sys, md) ==
    LET locations == COMMON_APP_LOCATIONS[sys]
        F[i \in 0..Len(locations)] ==
            IF i = 0 THEN <<>>
            ELSE _scan_directory(sys, locations[i], F[i - 1], 0, md)
    IN F[Len(locations)]

ScanAgreesWithRecursion ==
    (last.scans_after > last.scans_before /\ last.raised = "" /\ ~last.cut) =>
        last.index_after = FullIndex(platform_system, last.max_depth)


\* ------------------------------------------------------- claims C15 - C20
Lookups == {"find_application", "get_installed_apps"}

Scanned(call) == call.scans_after > call.scans_before

SubMap(f, g) == \A n \in DOMAIN f : n \in DOMAIN g /\ g[n] = f[n]

StartsWith(s, prefix) == Len(s) >= Len(prefix) /\ SubSeq(s, 1, Len(prefix)) = prefix

\* the number of directory levels between a root location and the
\* directory that holds the path
LevelsBelow(path, root) ==
    Cardinality({i \in Len(root) + 1..Len(path) : CharAt(path, i) = "/"}) - 1

DirectoryErrors == {"PermissionError", "FileNotFoundError", "OSError"}

MaxVoiceCalls == 2

\* str.split('\n')
RECURSIVE SplitLines(_)
SplitLines(s) ==
    IF ~Contains(s, "\n") THEN <<s>>
    ELSE LET i == CHOOSE k \in 1..Len(s) :
                      /\ CharAt(s, k) = "\n"
                      /\ \A j \in 1..(k - 1) : CharAt(s, j) # "\n"
         IN <<SubSeq(s, 1, i - 1)>> \o SplitLines(SubSeq(s, i + 1, Len(s)))

\* str.split(): the maximal runs of characters that are not whitespace
RECURSIVE SplitWords(_)
SplitWords(s) ==
    LET t == LStrip(s)
    IN IF Len(t) = 0 THEN <<>>
       ELSE LET ends == {k \in 1..Len(t) :
                            k = Len(t) \/ CharAt(t, k + 1) \in Whitespace}
                i == CHOOSE k \in ends : \A j \in ends : k <= j
            IN <<SubSeq(t, 1, i)>> \o SplitWords(SubSeq(t, i + 1, Len(t)))

\* [... for line in lines if line]
NonEmptyLines(lines) == SelectSeq(lines, LAMBDA l : l # "")

TokensKey == "HKEY_LOCAL_MACHINE\\SOFTWARE\\Microsoft\\Speech\\Voices\\Tokens\\"

\* the hard-coded catalogs
WindowsDefaultVoices == <<TokensKey \o "TTS_MS_EN-US_ZIRA_11.0">>
MacDefaultVoices == <<"com.apple.speech.synthesis.voice.samantha">>
LinuxDefaultVoices == <<"default">>

\* what an enumeration finds: the registry key opened or OpenKey raising,
\* with the subkeys EnumKey gives before its OSError; subprocess.run raising
\* or completing with the text the command printed
Enumeration(raised, keys, stdout) ==
    [raised |-> raised, keys |-> keys, stdout |-> stdout]

RegistryOutcomes ==
    {Enumeration("OSError", <<>>, ""),
     Enumeration("PermissionError", <<>>, ""),
     Enumeration("", <<>>, ""),
     Enumeration("", <<"TTS_MS_EN-US_DAVID_11.0">>, ""),
     Enumeration("", <<"TTS_MS_EN-US_DAVID_11.0", "TTS_MS_EN-US_ZIRA_11.0">>, "")}

SayOutcomes ==
    {Enumeration("FileNotFoundError", <<>>, ""),
     Enumeration("", <<>>, ""),
     Enumeration("", <<>>, "Alex en_US # Hi\n"),
     Enumeration("", <<>>, "Alex en_US # Hi\nSamantha en_US # Hello\n"),
     Enumeration("", <<>>, " \n")}

EspeakOutcomes ==
    {Enumeration("FileNotFoundError", <<>>, ""),
     Enumeration("", <<>>, ""),
     Enumeration("", <<>>, "Pty Language Age/Gender VoiceName\n"),
     Enumeration("", <<>>, "Pty Language Age/Gender VoiceName\n 5 af M afrikaans\n"),
     Enumeration("", <<>>, "Pty Language\n 5 af\n")}

Enumerations(sys) ==
    IF sys = "Windows" THEN RegistryOutcomes
    ELSE IF sys = "Darwin" THEN SayOutcomes
    ELSE EspeakOutcomes

\* what a _get_*_voices call gives back
Catalog(raised, voices) == [raised |-> raised, catalog |-> voices]

\* voices = []; the keys are appended while the registry is read; an
\* OSError or PermissionError of OpenKey is caught; voices or [the default]
_get_windows_voices(sys, e) ==
    IF sys # "Windows" THEN Catalog("", <<"">>)
    ELSE LET voices == IF e.raised # "" THEN <<>>
                       ELSE [i \in 1..Len(e.keys) |-> TokensKey \o e.keys[i]]
         IN Catalog("", IF voices = <<>> THEN WindowsDefaultVoices ELSE voices)

\* say -v ?: the first word of every non-empty line, lower-cased behind
\* the prefix; any exception, the IndexError of a line without a word
\* included, gives the hard-coded catalog
_get_mac_voices(e) ==
    LET lines == NonEmptyLines(SplitLines(e.stdout))
    IN IF e.raised # "" THEN Catalog("", MacDefaultVoices)
       ELSE IF \E i \in 1..Len(lines) : Len(SplitWords(lines[i])) < 1
       THEN Catalog("", MacDefaultVoices)
       ELSE Catalog("", [i \in 1..Len(lines) |->
                            "com.apple.speech.synthesis.voice."
                               \o Lower(SplitWords(lines[i])[1])])

\* espeak --voices: the third word of every non-empty line after the
\* first; any exception, the IndexError of a shorter line included, gives
\* the hard-coded catalog
_get_linux_voices(e) ==
    LET lines == NonEmptyLines(Tail(SplitLines(e.stdout)))
    IN IF e.raised # "" THEN Catalog("", LinuxDefaultVoices)
       ELSE IF \E i \in 1..Len(lines) : Len(SplitWords(lines[i])) < 3
       THEN Catalog("", LinuxDefaultVoices)
       ELSE Catalog("", [i \in 1..Len(lines) |-> SplitWords(lines[i])[3]])

\* the method the platform selects, as get_default_voice and the setup
\* wizard select it
platform_voices(sys, e) ==
    IF is_windows(sys) THEN _get_windows_voices(sys, e)
    ELSE IF sys = "Darwin" THEN _get_mac_voices(e)
    ELSE _get_linux_voices(e)

VoicesMethod(sys) ==
    IF is_windows(sys) THEN "_get_windows_voices"
    ELSE IF sys = "Darwin" THEN "_get_mac_voices"
    ELSE "_get_linux_voices"

\* the first voice of the platform's catalog; the IndexError of an empty
\* catalog is caught and gives ""
get_default_voice(sys, e) ==
    LET got == platform_voices(sys, e)
    IN IF got.raised # "" \/ got.catalog = <<>> THEN "" ELSE got.catalog[1]

InitVoices ==
    /\ voice_calls = <<>>
    /\ RunOff
    /\ appended = <<>>
    /\ ScanOff
    /\ missing_deps = {}
    /\ platform_system \in Platforms
    /\ app_cache = <<>>
    /\ conversation_history = <<>>
    /\ command = NoCommand
    /\ result = "none"
    /\ calls = <<>>
    /\ fired = <<>>
    /\ ncalls = 0
    /\ attached = Attached(missing_deps)

VoiceCall(op, e, raised, catalog, voice) ==
    [op |-> op, found |-> e, raised |-> raised, catalog |-> catalog, voice |-> voice]

\* the enumeration method of the platform is called
GetVoices(e) ==
    /\ Len(voice_calls) < MaxVoiceCalls
    /\ LET got == platform_voices(platform_system, e)
       IN voice_calls' = Append(voice_calls,
                                VoiceCall(VoicesMethod(platform_system), e,
                                          got.raised, got.catalog, ""))
    /\ UNCHANGED assistantVars
    /\ UNCHANGED dispatchVars
    /\ UNCHANGED runVars
    /\ UNCHANGED historyVars
    /\ UNCHANGED scanVars

\* get_default_voice is called
GetDefaultVoice(e) ==
    /\ Len(voice_calls) < MaxVoiceCalls
    /\ voice_calls' = Append(voice_calls,
                             VoiceCall("get_default_voice", e, "", <<>>,
                                       get_default_voice(platform_system, e)))
    /\ UNCHANGED assistantVars
    /\ UNCHANGED dispatchVars
    /\ UNCHANGED runVars
    /\ UNCHANGED historyVars
    /\ UNCHANGED scanVars

NextVoices ==
    \/ \E e \in Enumerations(platform_system) : GetVoices(e)
    \/ \E e \in Enumerations(platform_system) : GetDefaultVoice(e)

SpecVoices == InitVoices /\ [][NextVoices]_vars

\* ------------------------------------------------------------------ C22
VoiceEnumerations == {"_get_windows_voices", "_get_mac_voices", "_get_linux_voices"}

DefaultCatalog(sys) ==
    IF sys = "Windows" THEN WindowsDefaultVoices
    ELSE IF sys = "Darwin" THEN MacDefaultVoices
    ELSE LinuxDefaultVoices

\* the enumeration failed, or gave no voice: no registry subkey, nothing
\* printed by the voice-listing command
NothingFound(e) == e.raised # "" \/ (e.keys = <<>> /\ e.stdout = "")

\* C22: on every platform voice discovery never raises and returns a
\* non-empty catalog, and when the enumeration fails or yields no voices
\* the catalog is the one-element hard-coded default of the platform.
C22_VoicesNeverEmpty ==
    \A i \in 1..Len(voice_calls) :
        voice_calls[i].op \in VoiceEnumerations =>
            /\ voice_calls[i].raised = ""
            /\ voice_calls[i].catalog # <<>>
            /\ NothingFound(voice_calls[i].found)
                  => voice_calls[i].catalog = DefaultCatalog(platform_system)


\* ------------------------------------------------------------------ C23
\* C23: when no speech arrives within the listen timeout, or nothing is
\* recognized, listen() returns None instead of raising, and the run loop
\* dispatches nothing and goes on to the next listen: an iteration that
\* listened and made no process_command call leaves run() in its loop with
\* no exception, and the dispatch state as it was.
C23_NoCommandKeepsListening ==
    [][(listens' = listens + 1 /\ ncalls' = ncalls) =>
          /\ run_pc' = "loop"
          /\ run_error' = ""
          /\ UNCHANGED dispatchVars]_vars


\* ------------------------------------------------------------------ C24
\* the last call was made with a text that was accepted, n its normalized
\* form
AcceptedText(n) == Called /\ IsText /\ ~HasDisallowed(n)

CallsOf(op) == {i \in 1..Len(calls) : calls[i].op = op}

\* the text with every occurrence of the keywords taken out, one keyword
\* after the other, and the whitespace around the rest trimmed
Without(s, keywords) ==
    LET R[i \in 0..Len(keywords)] ==
            IF i = 0 THEN s ELSE Replace(R[i - 1], keywords[i], "")
    IN Strip(R[Len(keywords)])

\* C24: for an accepted command whose matched rule is the play rule, with
\* the media capability present, the media search is invoked exactly once,
\* with the normalized text without the keyword "play", trimmed.
C24_PlayQuery ==
    \A n \in {N} :
        (/\ "pywhatkit" \notin missing_deps
         /\ AcceptedText(n)
         /\ Contains(n, "play") /\ FirstMatch(n) = "play") =>
            /\ Cardinality(CallsOf("browser.search_youtube")) = 1
            /\ \A i \in CallsOf("browser.search_youtube") :
                  calls[i].arg = Without(n, <<"play">>)

\* "  Play Music\n" gives "music": the case is folded and the space left
\* behind the keyword is trimmed
C24_Witness ==
    /\ Accepted /\ FirstMatch(N) = "play" /\ "pywhatkit" \notin missing_deps
    /\ command.text # N
    /\ \E i \in CallsOf("browser.search_youtube") :
          /\ calls[i].arg = "music"
          /\ calls[i].arg # Replace(N, "play", "")

\* ------------------------------------------------------------------ C25
\* C25: for an accepted command holding both "search" and "google" whose
\* matched rule is the search rule, the web search receives the normalized
\* text without the keywords "search" and "google", trimmed, and the query
\* holds neither keyword.
C25_SearchQuery ==
    \A n \in {N} :
        (/\ AcceptedText(n)
         /\ Contains(n, "search") /\ Contains(n, "google")
         /\ FirstMatch(n) = "search google") =>
            /\ CallsOf("browser.search_google") # {}
            /\ \A i \in CallsOf("browser.search_google") :
                  /\ calls[i].arg = Without(n, <<"search", "google">>)
                  /\ ~Contains(calls[i].arg, "search")
                  /\ ~Contains(calls[i].arg, "google")


\* ------------------------------------------------------------------ C26
\* the feature providers among the attributes of the assistant
FeatureProviders ==
    {"browser", "system", "weather", "news", "screenshot", "social", "wiki",
     "location", "speech", "sentiment_analyzer", "intent_classifier"}

ProvidersAttached == attached \cap FeatureProviders

\* C26: the capability table is fixed after startup: no step, of any
\* sequence of commands, changes the set of missing dependencies or the set
\* of feature providers attached to the assistant.
C26_CapabilitiesFixed ==
    [][/\ missing_deps' = missing_deps
       /\ attached' \cap FeatureProviders = ProvidersAttached]_vars

\* two commands have been processed, the last by the default responder,
\* which loads the NLP models into their slots, on an assistant that lacks
\* a feature package: the providers are still those of the constructor
C26_Witness ==
    /\ ncalls = MaxCalls
    /\ Accepted
    /\ \E i \in 1..Len(calls) : calls[i].op = "generate_response"
    /\ missing_deps = {"pywhatkit"}
    /\ ProvidersAttached = FeatureProviders \ {"weather", "news"}


\* ------------------------------------------------------------------ C27
\* the two names differ at most in the case of their letters
SameUpToCase(a, b) ==
    /\ Len(a) = Len(b)
    /\ \A i \in 1..Len(a) :
          \/ CharAt(a, i) = CharAt(b, i)
          \/ /\ CharAt(a, i) \in DOMAIN UpperToLower
             /\ UpperToLower[CharAt(a, i)] = CharAt(b, i)
          \/ /\ CharAt(b, i) \in DOMAIN UpperToLower
             /\ UpperToLower[CharAt(b, i)] = CharAt(a, i)

HasUpperCase(s) == \E i \in 1..Len(s) : CharAt(s, i) \in DOMAIN UpperToLower

SameResult(a, b) == a.raised = b.raised /\ a.value = b.value

Turn(text) == [text |-> text, speaker |-> "user"]

\* other conversation histories the same assistant could hold: none, and a
\* full window of ten turns
OtherHistories ==
    {<<>>,
     <<Turn("goodbye"), Turn("shutdown"), Turn("confirm shutdown"),
       Turn("play music"), Turn("weather"), Turn("news"), Turn("hello"),
       Turn("restart"), Turn("sleep"), Turn("bye")>>}

\* what a call resolved to: the rules fired, the actions invoked with their
\* arguments, and the continue flag
Resolution(out) == [result |-> out.result, calls |-> out.calls, fired |-> out.fired]

ResolutionsFrom(h) ==
    {Resolution(out) : out \in process_command(command, missing_deps,
                                               platform_system, app_cache, h)}

\* C28: command resolution does not depend on the conversation history: the
\* rules the last call fired, the actions it invoked with their arguments
\* and the flag it returned are a resolution of the same command on the
\* same assistant holding any other history, and the same command resolves
\* in the same ways from every history.
C28_HistoryIndependent ==
    Called =>
        \E none \in {ResolutionsFrom(<<>>)} :
            /\ [result |-> result, calls |-> calls, fired |-> fired] \in none
            /\ \A h \in OtherHistories : ResolutionsFrom(h) = none

\* the last call was made on a history that already held a turn and fired
\* a rule that invoked an action
C28_Witness ==
    /\ Accepted
    /\ Len(conversation_history) = 2
    /\ conversation_history[1].text # conversation_history[2].text
    /\ fired # <<>>
    /\ FeatureCalls # {}


\* ------------------------------------------------------------------ C29
\* the history with one more user turn, within its window of ten
WithUserTurn(h, text) ==
    LET turn == [text |-> text, speaker |-> "user"]
    IN IF Len(h) < HistoryLimit THEN Append(h, turn) ELSE Append(Tail(h), turn)

\* C29: a call with a rejected input (empty, not text, or holding a
\* disallowed character) leaves the conversation history unchanged, and a
\* call with an accepted command appends exactly one user-role turn whose
\* text is the command lower-cased and trimmed; the turn is there whatever
\* the rules then do, a farewell or an exception included.
C29_HistoryFrame ==
    [][ncalls' # ncalls =>
          \A n \in {Strip(Lower(command'.text))} :
              IF command'.kind = "str" /\ command'.text # "" /\ ~HasDisallowed(n)
              THEN conversation_history' = WithUserTurn(conversation_history, n)
              ELSE conversation_history' = conversation_history]_vars

\* an accepted command written with capitals and surrounding whitespace was
\* recorded lower-cased and trimmed, and the rejected command that followed
\* left the history at that one turn
C29_Witness ==
    /\ ncalls = 2
    /\ Called /\ IsText /\ HasDisallowed(N)
    /\ conversation_history = <<[text |-> "play music", speaker |-> "user"]>>


\* ------------------------------------------------------------------ C30
\* the calls of a log that go to the operating system: shell command lines
\* and the application launcher
OSOps == {"os.system", "os.startfile", "subprocess.call"}

OSCalls(log) == SelectSeq(log, LAMBDA call : call.op \in OSOps)

\* the command lines system_manager writes out, by platform
ShellLiterals(sys) ==
    IF sys = "Windows"
    THEN {"shutdown /s /t 60", "shutdown /a", "shutdown /r /t 5",
          "rundll32.exe powrprof.dll,SetSuspendState 0,1,0"}
    ELSE {"sudo shutdown -h +1", "sudo shutdown -c", "sudo shutdown -r now",
          "pmset sleepnow"}

\* what the launcher is given for a path of the index, by platform
LauncherArguments(sys, index) ==
    {(IF sys = "Windows" THEN "" ELSE IF sys = "Darwin" THEN "open " ELSE "xdg-open ")
        \o index[n] : n \in DOMAIN index}

\* the command processed before the last one, as the history recorded it
PreviousCommand == Str(conversation_history[Len(conversation_history) - 1].text)

\* C30: no part of the command text reaches an OS invocation: every shell
\* command line issued during a call is one of the fixed literals of the
\* platform, the launcher is given nothing but a path of the application
\* index, and two commands that fire the same rules issue identical OS
\* calls: the command processed before, given again to the same assistant,
\* issues the OS calls of the last one whenever it fires the same rules.
C30_NoCommandTextInShell ==
    /\ \A i \in 1..Len(calls) :
          /\ calls[i].op = "os.system"
                => calls[i].arg \in ShellLiterals(platform_system)
          /\ calls[i].op \in {"os.startfile", "subprocess.call"}
                => calls[i].arg \in LauncherArguments(platform_system, app_cache)
    /\ (ncalls >= 2 /\ Accepted /\ Len(conversation_history) >= 2) =>
          \A out \in process_command(PreviousCommand, missing_deps, platform_system,
                                     app_cache, <<>>) :
              out.fired = fired => OSCalls(out.calls) = OSCalls(calls)

\* "restart" and "restart now", one after the other, fired the restart rule
\* and both issued the one restart command line of the platform
C30_Witness ==
    /\ ncalls = 2 /\ Accepted
    /\ Len(conversation_history) = 2
    /\ conversation_history[1].text # conversation_history[2].text
    /\ fired = <<"restart">>
    /\ Len(OSCalls(calls)) = 1
    /\ \A out \in process_command(PreviousCommand, missing_deps, platform_system,
                                  app_cache, <<>>) :
          out.fired = fired /\ OSCalls(out.calls) = OSCalls(calls)

====
